---- MODULE Spec2Model ----
(***************************************************************************)
(* A model of smodslib: the dependency-graph resolver                      *)
(* (smods.create_mod_dependencies_tree, smods.get_mod_dependencies,        *)
(* batch.generate_dependency_tree) and the download-url resolver           *)
(* (download.generate_download_url).                                       *)
(*                                                                         *)
(* The site is the environment: a fixed map from mod ids to pages.  A page *)
(* is what the resolver reads of it: whether the div#required-items box    *)
(* exists, whether the "Required items:" section exists, and the section's *)
(* smods.ru links in document order.  A link is written as what its        *)
(* external-id lookup gives: the id of the mod found, or NoResult.         *)
(***************************************************************************)
EXTENDS Integers, Sequences, FiniteSets, TLC

VARIABLES
    site,               \* [Mods -> Pages]: the pages of the site
    entry,              \* the public operation called: "batch" | "get_deps"
    mods_ids,           \* generate_dependency_tree's list of roots
    recursive,          \* the recursive flag
    k,                  \* position of generate_dependency_tree's for loop (1-based)
    dependencies_list,  \* the shared accumulator: Seq of [id, required_by]
    stack,              \* the active create_mod_dependencies_tree calls, outermost first
    pc,                 \* "idle" | "run" | "done" | "overflow"
    retval,             \* "unset" | "list" | "None"
    revision_url,       \* generate_download_url: revision.download_url
    mod_url,            \* generate_download_url's local mod_url
    dl_pc,              \* "off" | "start" | "get" | "post" | "returned" | "raised"
    requests_log,       \* the requests sent so far, in order
    get_response,       \* the response of the GET hop, NoGetResponse before it
    post_response,      \* the response of the POST, NoPostResponse before it
    download_url,       \* the value returned, NoFile before the return
    dl_error,           \* the exception raised, "none" when none
    files,              \* the download directory: [FileNames -> [exists, size]]
    dr_pc,              \* download_revision: "off" | "idle" | "streaming"
    dr_call,            \* the call of download_revision that runs, or ran last
    dr_prev,            \* what the call before it was given and returned
    page,               \* the mod page the extractors read
    now_year,           \* datetime.now().year
    pt_text,            \* parse_time: the text given
    pt_templates,       \* parse_time: the templates given
    ext,                \* the extractor called last and what it gave
    full_mod            \* the FullMod object

treeVars == <<site, entry, mods_ids, recursive, k, dependencies_list, stack, pc, retval>>

urlVars == <<revision_url, mod_url, dl_pc, requests_log, get_response, post_response,
             download_url, dl_error>>

dlVars == <<files, dr_pc, dr_call, dr_prev>>

modVars == <<page, now_year, pt_text, pt_templates, ext, full_mod>>

vars == <<treeVars, urlVars, dlVars, modVars>>

----------------------------------------------------------------------------
\* Bounds of the model.

NMods == 3
MaxReqs == 2
MaxRoots == 2
MaxChunks == 2
MaxRevs == 2
MaxTemplates == 2

Mods == 1..NMods

\* A recursion deeper than the number of mods has a mod twice on its path:
\* the code then never returns (it recurses until the interpreter gives up).
MaxDepth == NMods + 1

----------------------------------------------------------------------------
\* The site.

\* The outcome of create_mod_base_from_steam_id when the search page has no article.
NoResult == 0

Refs == {NoResult} \cup Mods

SeqsUpTo(S, n) == UNION {[1..m -> S] : m \in 0..n}

Pages ==
    {[box |-> FALSE, section |-> FALSE, refs |-> <<>>],
     [box |-> TRUE, section |-> FALSE, refs |-> <<>>]}
    \cup {[box |-> TRUE, section |-> TRUE, refs |-> r] : r \in SeqsUpTo(Refs, MaxReqs)}

\* ModBase.has_dependencies as create_mod_base_from_bs_page sets it.
HasDependencies(m) == site[m].box

----------------------------------------------------------------------------
\* Helpers of the resolver.

\* _is_mod_in_list: the 0-based index of the first element with this id, or -1.
IsModInList(id, ids) ==
    IF \E j \in 1..Len(ids) : ids[j] = id
    THEN (CHOOSE j \in 1..Len(ids) : ids[j] = id /\ \A h \in 1..(j - 1) : ids[h] # id) - 1
    ELSE -1

Ids(list) == [j \in 1..Len(list) |-> list[j].id]

\* Mutant: the try wraps the whole loop, so the first failed lookup ends it.
RECURSIVE ScrapeLinksTryOutside(_)
ScrapeLinksTryOutside(refs) ==
    IF refs = <<>> \/ Head(refs) = NoResult THEN <<>>
    ELSE <<Head(refs)>> \o ScrapeLinksTryOutside(Tail(refs))

\* The scraping loop: each link is looked up, a NoResultError is passed over,
\* the mods found are kept in document order.
RECURSIVE ScrapeLinks(_)
ScrapeLinks(refs) ==
    IF refs = <<>> THEN <<>>
    ELSE IF Head(refs) = NoResult THEN ScrapeLinks(Tail(refs))
    ELSE <<Head(refs)>> \o ScrapeLinks(Tail(refs))

\* requirements_list of a call on mod m.
RequirementsList(m) ==
    IF site[m].section THEN ScrapeLinks(site[m].refs) ELSE <<>>

\* ModDependency.from_mod: a fresh entry, required_by empty.
FromMod(mod) == [id |-> mod, required_by |-> <<>>]

\* Mutant: the root is appended to required_by without the duplicate check.
MergeNoCheck(list, mod, root) ==
    LET search_index == IsModInList(mod, Ids(list)) IN
    IF search_index >= 0
    THEN [list EXCEPT ![search_index + 1].required_by = Append(@, root)]
    ELSE Append(list, [FromMod(mod) EXCEPT !.required_by = Append(@, root)])

\* Mutant: the requirement is appended without the search of the accumulator.
MergeNoSearch(list, mod, root) ==
    Append(list, [FromMod(mod) EXCEPT !.required_by = Append(@, root)])

\* Mutant: a new entry is inserted at the head of the list.
MergePrepend(list, mod, root) ==
    LET search_index == IsModInList(mod, Ids(list)) IN
    IF search_index >= 0
    THEN IF IsModInList(root, list[search_index + 1].required_by) < 0
         THEN [list EXCEPT ![search_index + 1].required_by = Append(@, root)]
         ELSE list
    ELSE <<[FromMod(mod) EXCEPT !.required_by = Append(@, root)]>> \o list

\* The body of "for mod in requirements_list" up to the recursion.
Merge(list, mod, root) ==
    LET search_index == IsModInList(mod, Ids(list)) IN
    IF search_index >= 0
    THEN IF IsModInList(root, list[search_index + 1].required_by) < 0
         THEN [list EXCEPT ![search_index + 1].required_by = Append(@, root)]
         ELSE list
    ELSE Append(list, [FromMod(mod) EXCEPT !.required_by = Append(@, root)])

\* The state of a call that has fetched its page and scraped its requirements.
\* acc_in is a history field: the accumulator as the call received it.
Frame(m, list) ==
    [root |-> m, reqs |-> RequirementsList(m), i |-> 1, acc_in |-> list]

\* Mutants: the recursion made whatever the flag, and never made.
DescendAlways(flag) == TRUE

DescendNever(flag) == FALSE

\* "if recursive:" of the loop body.
Descend(flag) == flag

\* Mutant: a call without requirements returns a fresh empty list.
ReturnValueFresh(f, list) == IF f.reqs = <<>> THEN <<>> ELSE list

\* "return dependencies_list": the value the caller binds its list to.
ReturnValue(f, list) == list

\* Mutant: every root is resolved against a fresh list.
BatchArgumentFresh(list) == <<>>

\* The accumulator generate_dependency_tree hands to each call: its running list.
BatchArgument(list) == list


\* create_mod_dependencies_tree as a function of its arguments: the list it
\* returns for root m, accumulator list and the flag.  depth is the number of
\* active calls; past MaxDepth (a cyclic graph) the descent is cut.
RECURSIVE TreeLoop(_, _, _, _, _)
TreeLoop(root, reqs, list, flag, depth) ==
    IF reqs = <<>> THEN list
    ELSE LET mod == Head(reqs)
             merged == Merge(list, mod, root)
             after == IF Descend(flag) /\ depth < MaxDepth
                      THEN TreeLoop(mod, RequirementsList(mod), merged, flag, depth + 1)
                      ELSE merged
         IN TreeLoop(root, Tail(reqs), after, flag, depth)

CreateModDependenciesTree(m, list, flag) ==
    TreeLoop(m, RequirementsList(m), list, flag, 1)

----------------------------------------------------------------------------
\* The download-url resolver (download.generate_download_url).

\* A url is its hostname (as urlparse gives it) and its second-to-last path
\* segment, the download id.
Hosts == {"modsbase.com", "uploadfiles.eu", "www.modsbase.com", "example.org"}

DownloadIds == {"id1", "id2"}

Urls == [host : Hosts, id : DownloadIds]

\* The direct binary urls a host may name, in a header or in a body.
FileUrls == {"file1", "file2"}

\* Absent values, of the shape of the present ones.
NoUrl == [host |-> "none", id |-> "none"]
NoHeader == "no-header"
NoLocation == [host |-> NoHeader, id |-> NoHeader]
NoFile == "no-file"
NoGetResponse == [status |-> 0, location |-> NoLocation]
NoPostResponse == [status |-> 0, location |-> NoHeader, body |-> NoFile]

Statuses == {200, 302, 404, 503}

GetResponses == [status : Statuses, location : Urls \cup {NoLocation}]

PostResponses == [status : Statuses, location : FileUrls \cup {NoHeader}, body : FileUrls]

\* urlparse(mod_url).hostname
Hostname(url) == url.host

SUPPORTED_HOSTS == {"modsbase.com", "uploadfiles.eu"}

\* Mutant: a substring test in place of the membership test.
IsSupportedSubstring(hostname) ==
    hostname \in {"modsbase.com", "uploadfiles.eu", "www.modsbase.com"}

IsSupported(hostname) == hostname \in SUPPORTED_HOSTS

\* Mutant: only client errors raise.
RaisesForStatus4xx(status) == status >= 400 /\ status < 500

\* Response.raise_for_status raises HTTPError for 4xx and 5xx.
RaisesForStatus(status) == status >= 400 /\ status < 600

GetRequest(url) == [method |-> "GET", url |-> url, allow_redirects |-> FALSE]

\* The unlock form: op download2, the id, the free-download choice.
PostRequest(url) ==
    [method |-> "POST", url |-> url, allow_redirects |-> FALSE, op |-> "download2",
     id |-> url.id, method_free |-> "Free Download", method_premium |-> ""]

\* Mutant: the url is read from the response's body.
ResolvedUrlFromBody(r) == r.body

\* The url generate_download_url returns from the POST's response.

ResolvedUrl(r) == r.location

UrlOff ==
    /\ revision_url = NoUrl
    /\ mod_url = NoUrl
    /\ dl_pc = "off"
    /\ requests_log = <<>>
    /\ get_response = NoGetResponse
    /\ post_response = NoPostResponse
    /\ download_url = NoFile
    /\ dl_error = "none"

----------------------------------------------------------------------------
\* The downloader (download.download_revision).

\* A download url is what precedes its last path segment, and that segment.
DlUrls ==
    {[base |-> "host1/id1", name |-> "a.zip"],
     [base |-> "host1/id2", name |-> "b.zip"]}

NoDlUrl == [base |-> "none", name |-> "none"]

FileNames == {u.name : u \in DlUrls}

\* download_path: one directory.
DownloadPath == "downloads"

\* local_filename = download_url.split('/')[-1]
LocalFilename(url) == url.name

\* download_target, which is also the path returned.
DownloadTarget(url, path) == [dir |-> path, name |-> LocalFilename(url)]

NoTarget == [dir |-> "none", name |-> "none"]

NoFileThere == [exists |-> FALSE, size |-> 0]

\* Mutant: the test of the target is dropped, every call fetches.
PathExistsNever(name) == FALSE

\* os.path.exists(download_target)
PathExists(name) == files[name].exists

\* The content-length header: present with a value, or absent.
LengthHeaders ==
    {[present |-> FALSE, value |-> 0]} \cup [present : {TRUE}, value : {3}]

DlStatuses == {200, 404, 503}

\* The lengths of the chunks r.iter_content yields.
ChunkLens == {1, 2}

\* Mutant: an existing file is reported as nothing of its size downloaded.
ExistingProgressZero(cb, size) == IF cb THEN <<[dl |-> 0, total |-> size]>> ELSE <<>>

\* The progress calls of the branch of an existing file.
ExistingProgress(cb, size) == IF cb THEN <<[dl |-> size, total |-> size]>> ELSE <<>>

\* Mutant: the HTTPError is swallowed without a call of error_callback.
ErrorCallsNone(cb, status) == <<>>

\* The error calls of the except branch: (r.status_code, str(e)).
ErrorCalls(cb, status) ==
    IF cb THEN <<[code |-> status, message |-> "HTTPError"]>> ELSE <<>>

\* "if total_length and progress_callback" after a chunk is written.
ChunkProgress(cb, length, dl) ==
    IF length.present /\ cb THEN <<[dl |-> dl, total |-> length.value]>> ELSE <<>>

\* The record of a call as it starts.
NewCall(url, pcb, ecb) ==
    [url |-> url, pcb |-> pcb, ecb |-> ecb,
     existed |-> PathExists(LocalFilename(url)),
     size_before |-> files[LocalFilename(url)].size,
     requests |-> 0, status |-> 0, length |-> [present |-> FALSE, value |-> 0],
     chunks |-> <<>>, dl |-> 0, progress |-> <<>>, errors |-> <<>>,
     result |-> "pending", path |-> NoTarget,
     file_after |-> files[LocalFilename(url)]]

\* No call yet.
NoCall ==
    [url |-> NoDlUrl, pcb |-> FALSE, ecb |-> FALSE,
     existed |-> FALSE, size_before |-> 0,
     requests |-> 0, status |-> 0, length |-> [present |-> FALSE, value |-> 0],
     chunks |-> <<>>, dl |-> 0, progress |-> <<>>, errors |-> <<>>,
     result |-> "none", path |-> NoTarget,
     file_after |-> NoFileThere]

\* What is kept of a call when the next one starts.
Outcome(c) ==
    [url |-> c.url, result |-> c.result, path |-> c.path, requests |-> c.requests]

DlOff ==
    /\ files = [n \in FileNames |-> NoFileThere]
    /\ dr_pc = "off"
    /\ dr_call = NoCall
    /\ dr_prev = Outcome(NoCall)

----------------------------------------------------------------------------
\* Dates, parse_time and the extractors of a mod page (utils.py, smods.py),
\* and the FullMod object (model.py).

\* A text is read by its shape: the layout of its fields.  f1 and f2 are its
\* day and month fields in the order they stand in the text, y its year field
\* (0 when the text has none).
ShapeRevYear == "d b, Y at H:M"
ShapeRev == "d b at H:M"
ShapeLong == "B d, Y"
ShapeTwoNumbers == "n n"
ShapeJunk == "junk"

Text(shape, y, f1, f2) == [shape |-> shape, y |-> y, f1 |-> f1, f2 |-> f2]

\* The texts of revision links: "1 Jan, 2024 at 10:00", "2 Jan, 2023 at 10:00",
\* "1 Jan at 10:00", and one that is no date.
RevisionTexts ==
    {Text(ShapeRevYear, 2024, 1, 1), Text(ShapeRevYear, 2023, 2, 1),
     Text(ShapeRev, 0, 1, 1), Text(ShapeJunk, 0, 0, 0)}

\* The datetime attribute of a time element of the byline: "January 2, 2024".
BylineText == Text(ShapeLong, 2024, 1, 2)

\* Texts of two numbers, "1 2": a day and a month in either order.
NumberTexts == {Text(ShapeTwoNumbers, 0, a, b) : a \in 1..2, b \in 1..2}

Texts == RevisionTexts \cup {BylineText} \cup NumberTexts

\* A strptime template: its literal, the shape of the texts it accepts,
\* whether it holds %Y, and whether its day field stands before its month field.
TRevYear ==
    [fmt |-> "%d %b, %Y at %H:%M", shape |-> ShapeRevYear,
     has_year |-> TRUE, day_first |-> TRUE]
TRev ==
    [fmt |-> "%d %b at %H:%M", shape |-> ShapeRev,
     has_year |-> FALSE, day_first |-> TRUE]
TLong ==
    [fmt |-> "%B %d, %Y", shape |-> ShapeLong,
     has_year |-> TRUE, day_first |-> FALSE]
TDayMonth ==
    [fmt |-> "%d %m", shape |-> ShapeTwoNumbers,
     has_year |-> FALSE, day_first |-> TRUE]
TMonthDay ==
    [fmt |-> "%m %d", shape |-> ShapeTwoNumbers,
     has_year |-> FALSE, day_first |-> FALSE]

Templates == {TRevYear, TRev, TLong, TDayMonth, TMonthDay}

NoTemplate == [fmt |-> "none", shape |-> "none", has_year |-> FALSE, day_first |-> FALSE]

NoDate == [year |-> 0, month |-> 0, day |-> 0]

\* datetime.strptime(text, template) raises ValueError unless the text has the
\* template's layout.
StrptimeMatches(text, template) == text.shape = template.shape

\* datetime.strptime(text, template): the fields read where the template has
\* them, the year 1900 when the template has no %Y.
Strptime(text, template) ==
    [year |-> IF template.has_year THEN text.y ELSE 1900,
     month |-> IF template.day_first THEN text.f2 ELSE text.f1,
     day |-> IF template.day_first THEN text.f1 ELSE text.f2]

\* Mutant: the last template that matches wins.
RECURSIVE ParseTimeLast(_, _)
ParseTimeLast(text, templates) ==
    IF templates = <<>>
    THEN [ok |-> FALSE, value |-> NoDate, template |-> NoTemplate]
    ELSE LET n == Len(templates)
             t == templates[n]
         IN IF StrptimeMatches(text, t)
            THEN [ok |-> TRUE, value |-> Strptime(text, t), template |-> t]
            ELSE ParseTimeLast(text, SubSeq(templates, 1, n - 1))

\* utils.parse_time: ok false stands for the ValueError after the loop.
RECURSIVE ParseTime(_, _)
ParseTime(text, templates) ==
    IF templates = <<>>
    THEN [ok |-> FALSE, value |-> NoDate, template |-> NoTemplate]
    ELSE LET t == Head(templates)
         IN IF StrptimeMatches(text, t)
            THEN [ok |-> TRUE, value |-> Strptime(text, t), template |-> t]
            ELSE ParseTime(text, Tail(templates))

\* The templates get_mod_revisions passes, and the one of get_mod_dates.
RevisionTemplates == <<TRevYear, TRev>>
BylineTemplates == <<TLong>>

\* if "%Y" not in matched_template: date = date.replace(year=datetime.now().year)
BackFill(date, matched_template, year) ==
    IF ~matched_template.has_year THEN [date EXCEPT !.year = year] ELSE date

\* ModRevision(name, date, download_url)
ModRevision(name, date) == [name |-> name, date |-> date]

NoRevision == ModRevision(Text("none", 0, 0, 0), NoDate)

\* datetime's order.
DateLe(a, b) ==
    \/ a.year < b.year
    \/ a.year = b.year /\ a.month < b.month
    \/ a.year = b.year /\ a.month = b.month /\ a.day <= b.day

\* sorted(list, key=lambda itm: itm.date): stable, ascending.
RECURSIVE SortedByDate(_)
SortedByDate(list) ==
    IF list = <<>> THEN <<>>
    ELSE LET n == Len(list)
             x == list[n]
             front == SortedByDate(SubSeq(list, 1, n - 1))
             keep == {j \in 1..(n - 1) : DateLe(front[j].date, x.date)}
             at == IF keep = {} THEN 0 ELSE CHOOSE j \in keep : \A i \in keep : i <= j
         IN SubSeq(front, 1, at) \o <<x>> \o SubSeq(front, at + 1, n - 1)

\* An optional value: None, or the value.
None(dflt) == [none |-> TRUE, val |-> dflt]
Some(v) == [none |-> FALSE, val |-> v]

\* What the extractors read of a mod page.  title: the h1 of class post-title;
\* article: the article element with a post-<id> class; category: the link of
\* rel "category tag"; byline: the p of class post-byline, times: the classes
\* of its time elements; box: the div of id required-items, dlc: its
\* "Required DLC" section, dlcs: that section's links; rating: the p of class
\* skymods-item-rating, stars: its filled paths; tags_box: the p of class
\* post-tags, tags: its links; revisions: the div of id revisions and the
\* texts of its links; last_revision: the text under "Last revision:".
PageOf(flags, times, dlcs, stars, tags, revisions, last) ==
    [title |-> flags.title, article |-> flags.article, category |-> flags.category,
     byline |-> flags.byline, times |-> times,
     box |-> flags.box, dlc |-> flags.dlc, dlcs |-> dlcs,
     rating |-> flags.rating, stars |-> stars,
     tags_box |-> flags.tags_box, tags |-> tags,
     revisions |-> revisions, last_revision |-> last]

Flags ==
    [title : BOOLEAN, article : BOOLEAN, category : BOOLEAN, byline : BOOLEAN,
     box : BOOLEAN, dlc : BOOLEAN, rating : BOOLEAN, tags_box : BOOLEAN]

AllThere ==
    [title |-> TRUE, article |-> TRUE, category |-> TRUE, byline |-> TRUE,
     box |-> TRUE, dlc |-> TRUE, rating |-> TRUE, tags_box |-> TRUE]

NoRevisionsBox == [box |-> FALSE, links |-> <<>>]

RevisionBoxes ==
    {NoRevisionsBox} \cup [box : {TRUE}, links : SeqsUpTo(RevisionTexts, MaxRevs)]

\* A complete page with one old revision.
PlainPage ==
    PageOf(AllThere, {"published", "updated"}, <<"dlc1">>, 2, <<"tag1">>,
           [box |-> TRUE, links |-> <<Text(ShapeRevYear, 2023, 2, 1)>>],
           Text(ShapeRevYear, 2024, 1, 1))

\* Pages with any of the sections missing, and a plain revisions part.
PagesOfSections ==
    {PageOf(f, t, IF f.box /\ f.dlc THEN <<"dlc1">> ELSE <<>>,
            IF f.rating THEN 2 ELSE 0,
            IF f.tags_box THEN <<"tag1">> ELSE <<>>,
            PlainPage.revisions, PlainPage.last_revision) :
        f \in {g \in Flags : g.dlc => g.box},
        t \in {{}, {"published"}, {"published", "updated"}}}

\* Complete pages with any revisions part.
PagesOfRevisions ==
    {PageOf(AllThere, PlainPage.times, PlainPage.dlcs, PlainPage.stars,
            PlainPage.tags, r, l) :
        r \in RevisionBoxes, l \in RevisionTexts}

\* The result of an extractor: the exception it raised ("no" when none), and
\* one field per kind of value.
NoExt ==
    [op |-> "none", raised |-> "no",
     pt |-> ParseTime(Text("none", 0, 0, 0), <<>>),
     published |-> None(NoDate), updated |-> None(NoDate),
     rating |-> None(0), dlcs |-> None(<<>>), tags |-> None(<<>>),
     latest |-> NoRevision, old |-> None(<<>>)]

Raise(op, exception) == [NoExt EXCEPT !.op = op, !.raised = exception]

\* smods.get_mod_dates
GetModDates(p) ==
    IF ~p.byline
    THEN Raise("get_mod_dates", "AttributeError")
    ELSE LET parsed == ParseTime(BylineText, BylineTemplates) IN
         IF p.times # {} /\ ~parsed.ok
         THEN Raise("get_mod_dates", "ValueError")
         ELSE [NoExt EXCEPT
                 !.op = "get_mod_dates",
                 !.published = IF "published" \in p.times
                               THEN Some(parsed.value) ELSE None(NoDate),
                 !.updated = IF "updated" \in p.times
                             THEN Some(parsed.value) ELSE None(NoDate)]

\* smods.get_mod_rating
GetModRating(p) ==
    IF ~p.rating
    THEN Raise("get_mod_rating", "AttributeError")
    ELSE [NoExt EXCEPT !.op = "get_mod_rating", !.rating = Some(p.stars)]

\* smods.get_mod_dlcs
GetModDlcs(p) ==
    [NoExt EXCEPT !.op = "get_mod_dlcs",
                  !.dlcs = IF p.box /\ p.dlc THEN Some(p.dlcs) ELSE None(<<>>)]

\* smods.get_mod_tags
GetModTags(p) ==
    [NoExt EXCEPT !.op = "get_mod_tags",
                  !.tags = IF p.tags_box THEN Some(p.tags) ELSE Some(<<>>)]

\* The loop body of get_mod_revisions: one link's revision.
RevisionOf(text, year) ==
    LET parsed == ParseTime(text, RevisionTemplates)
    IN ModRevision(text, BackFill(parsed.value, parsed.template, year))

\* smods.get_mod_revisions
GetModRevisions(p, year) ==
    LET links == p.revisions.links
        old_revisions == [j \in 1..Len(links) |-> RevisionOf(links[j], year)]
    IN
    IF p.revisions.box
          /\ \E j \in 1..Len(links) : ~ParseTime(links[j], RevisionTemplates).ok
    THEN Raise("get_mod_revisions", "ValueError")
    ELSE IF ~ParseTime(p.last_revision, RevisionTemplates).ok
    THEN Raise("get_mod_revisions", "ValueError")
    ELSE [NoExt EXCEPT
            !.op = "get_mod_revisions",
            !.latest = RevisionOf(p.last_revision, year),
            !.old = IF p.revisions.box /\ old_revisions # <<>>
                    THEN Some(SortedByDate(old_revisions))
                    ELSE None(<<>>)]

\* smods.create_mod_base_from_bs_page: the exception of the first lookup that
\* fails, in the order of the lookups ("no" when none fails).
CreateModBaseFromBsPage(p, year) ==
    IF ~p.title THEN Raise("create_mod_base_from_bs_page", "AttributeError")
    ELSE IF ~p.article THEN Raise("create_mod_base_from_bs_page", "TypeError")
    ELSE IF GetModRevisions(p, year).raised # "no"
    THEN Raise("create_mod_base_from_bs_page", GetModRevisions(p, year).raised)
    ELSE IF GetModDates(p).raised # "no"
    THEN Raise("create_mod_base_from_bs_page", GetModDates(p).raised)
    ELSE IF ~p.category THEN Raise("create_mod_base_from_bs_page", "AttributeError")
    ELSE [NoExt EXCEPT !.op = "create_mod_base_from_bs_page",
                       !.latest = GetModRevisions(p, year).latest,
                       !.published = GetModDates(p).published]

\* The FullMod object: the fields create_full_mod sets after from_mod.
NoMod ==
    [exists |-> FALSE, updated_date |-> None(NoDate), rating |-> None(0),
     dlc_requirements |-> None(<<>>), other_revisions |-> None(<<>>),
     tags |-> None(<<>>)]

\* FullMod.other_revisions setter: sorted(value, ...) is computed and dropped,
\* the value is stored as given.
OtherRevisionsSetter(value) == value

\* The revisions a caller may hand to the constructor or the setter.
KnownRevisions ==
    {RevisionOf(t, 2025) : t \in {x \in RevisionTexts : x.shape = ShapeRevYear}}

\* smods.create_full_mod: the exception of the first extractor that raises,
\* or the object.
CreateFullMod(p, year) ==
    IF CreateModBaseFromBsPage(p, year).raised # "no"
    THEN [raised |-> CreateModBaseFromBsPage(p, year).raised, obj |-> NoMod]
    ELSE IF GetModRating(p).raised # "no"
    THEN [raised |-> GetModRating(p).raised, obj |-> NoMod]
    ELSE [raised |-> "no",
          obj |-> [exists |-> TRUE,
                   updated_date |-> GetModDates(p).updated,
                   rating |-> GetModRating(p).rating,
                   dlc_requirements |-> GetModDlcs(p).dlcs,
                   other_revisions |-> OtherRevisionsSetter(GetModRevisions(p, year).old),
                   tags |-> GetModTags(p).tags]]

ModOff ==
    /\ page = PlainPage
    /\ now_year = 0
    /\ pt_text = Text("none", 0, 0, 0)
    /\ pt_templates = <<>>
    /\ ext = NoExt
    /\ full_mod = NoMod

----------------------------------------------------------------------------
\* Operations of the resolver.

InitTree ==
    /\ site \in [Mods -> Pages]
    /\ entry \in {"batch", "get_deps"}
    /\ mods_ids \in SeqsUpTo(Mods, MaxRoots)
    /\ recursive \in BOOLEAN
    /\ entry = "get_deps" => (Len(mods_ids) = 1 /\ recursive = FALSE)
    /\ k = 1
    /\ dependencies_list = <<>>
    /\ stack = <<>>
    /\ pc = "idle"
    /\ retval = "unset"
    /\ UrlOff
    /\ DlOff
    /\ ModOff

\* get_mod_dependencies on a page without the section: None, no resolution.
GetModDependenciesNone ==
    /\ pc = "idle"
    /\ entry = "get_deps"
    /\ ~(site[mods_ids[1]].box /\ site[mods_ids[1]].section)
    /\ pc' = "done"
    /\ retval' = "None"
    /\ UNCHANGED <<site, entry, mods_ids, recursive, k, dependencies_list, stack>>
    /\ UNCHANGED <<urlVars, dlVars, modVars>>

\* A top-level call of create_mod_dependencies_tree: the next iteration of
\* generate_dependency_tree's loop, or get_mod_dependencies' call.
CallRoot ==
    /\ pc \in {"idle", "run"}
    /\ stack = <<>>
    /\ k <= Len(mods_ids)
    /\ entry = "get_deps" => (site[mods_ids[1]].box /\ site[mods_ids[1]].section)
    /\ LET passed == IF entry = "batch" THEN BatchArgument(dependencies_list) ELSE <<>>
       IN
       /\ dependencies_list' = passed
       /\ stack' = <<Frame(mods_ids[k], passed)>>
    /\ pc' = "run"
    /\ UNCHANGED <<site, entry, mods_ids, recursive, k, retval>>
    /\ UNCHANGED <<urlVars, dlVars, modVars>>

\* One iteration of "for mod in requirements_list" in the innermost call.
Step ==
    /\ pc = "run"
    /\ stack # <<>>
    /\ LET d == Len(stack)
           f == stack[d]
       IN
       /\ f.i <= Len(f.reqs)
       /\ LET mod == f.reqs[f.i]
              merged == Merge(dependencies_list, mod, f.root)
          IN
          /\ dependencies_list' = merged
          /\ IF Descend(recursive)
             THEN IF d < MaxDepth
                  THEN /\ stack' = Append(stack, Frame(mod, merged))
                       /\ pc' = pc
                  ELSE /\ stack' = stack
                       /\ pc' = "overflow"
             ELSE /\ stack' = [stack EXCEPT ![d].i = @ + 1]
                  /\ pc' = pc
    /\ UNCHANGED <<site, entry, mods_ids, recursive, k, retval>>
    /\ UNCHANGED <<urlVars, dlVars, modVars>>

\* "return dependencies_list" of the innermost call.
Return ==
    /\ pc = "run"
    /\ stack # <<>>
    /\ LET d == Len(stack)
           f == stack[d]
       IN
       /\ f.i > Len(f.reqs)
       /\ dependencies_list' = ReturnValue(f, dependencies_list)
       /\ IF d > 1
          THEN /\ stack' = [SubSeq(stack, 1, d - 1) EXCEPT ![d - 1].i = @ + 1]
               /\ k' = k
          ELSE /\ stack' = <<>>
               /\ k' = k + 1
    /\ UNCHANGED <<site, entry, mods_ids, recursive, pc, retval>>
    /\ UNCHANGED <<urlVars, dlVars, modVars>>

\* The caller's return: generate_dependency_tree after its loop (also on an
\* empty list of roots), get_mod_dependencies after its call.
BatchReturn ==
    /\ pc \in {"idle", "run"}
    /\ entry = "batch" \/ pc = "run"
    /\ stack = <<>>
    /\ k > Len(mods_ids)
    /\ pc' = "done"
    /\ retval' = "list"
    /\ UNCHANGED <<site, entry, mods_ids, recursive, k, dependencies_list, stack>>
    /\ UNCHANGED <<urlVars, dlVars, modVars>>

NextTree ==
    \/ GetModDependenciesNone
    \/ CallRoot
    \/ Step
    \/ Return
    \/ BatchReturn

SpecTree == InitTree /\ [][NextTree]_vars

----------------------------------------------------------------------------
\* Properties of the resolver, checked under SpecTree.

Range(seq) == {seq[j] : j \in 1..Len(seq)}

Count(x, seq) == Cardinality({j \in 1..Len(seq) : seq[j] = x})

IdSet(list) == {list[j].id : j \in 1..Len(list)}

Entries(list, id) == {j \in 1..Len(list) : list[j].id = id}

\* The mods whose lookup from m's page succeeds: m's direct requirements.
DirectReqs(m) == IF site[m].section THEN Range(site[m].refs) \ {NoResult} ELSE {}

RECURSIVE ReachFrom(_, _)
ReachFrom(seen, n) ==
    IF n = 0 THEN seen
    ELSE ReachFrom(seen \cup UNION {DirectReqs(x) : x \in seen}, n - 1)

\* The mods reachable from m through one or more requirement references.
Reach(m) == ReachFrom(DirectReqs(m), NMods)

Acyclic(m) == \A x \in {m} \cup Reach(m) : x \notin Reach(x)

\* The first top-level call has returned.
FirstCallReturned == pc = "run" /\ stack = <<>> /\ k = 2

Top == stack[Len(stack)]

\* C1: Dedup.  When the batch has returned, every mod M that some roots
\* require directly has exactly one entry in the accumulator, and each of
\* those roots is in that entry's required_by exactly once, whatever the order
\* of the roots; without recursion required_by holds nothing else, so two
\* roots sharing one dependency give one entry with required_by of length 2.
C1_Dedup ==
    (pc = "done" /\ retval = "list") =>
        \A M \in Mods :
            LET RS == {r \in Range(mods_ids) : M \in DirectReqs(r)} IN
            RS # {} =>
                /\ Cardinality(Entries(dependencies_list, M)) = 1
                /\ \A j \in Entries(dependencies_list, M) :
                    /\ \A r \in RS : Count(r, dependencies_list[j].required_by) = 1
                    /\ ~recursive => Len(dependencies_list[j].required_by) = Cardinality(RS)

C1_Witness ==
    /\ pc = "done"
    /\ entry = "batch"
    /\ Len(mods_ids) = 2
    /\ mods_ids[1] # mods_ids[2]
    /\ \E M \in Mods \ Range(mods_ids) :
        /\ M \in DirectReqs(mods_ids[1]) \cap DirectReqs(mods_ids[2])
        /\ Len(dependencies_list) = 1
        /\ dependencies_list[1].id = M
        /\ Len(dependencies_list[1].required_by) = 2

\* C2: Termination with a cycle guard.  No mod is twice on the current
\* expansion path, and the recursion never runs past every mod of the site.
C2_CycleGuard ==
    /\ \A a, b \in 1..Len(stack) : a < b => stack[a].root # stack[b].root
    /\ pc # "overflow"

\* C3: With the flag set, when the call on a root against an empty accumulator
\* has returned (the graph from the root being acyclic), the accumulator holds
\* exactly one entry for every mod reachable from the root and no other, and
\* the required_by of each is exactly the set of mods, among the root and the
\* reachable ones, that list it directly, each once.
C3_RecursiveTree ==
    (recursive /\ FirstCallReturned /\ Acyclic(mods_ids[1])) =>
        LET root == mods_ids[1] IN
        /\ IdSet(dependencies_list) = Reach(root)
        /\ Len(dependencies_list) = Cardinality(Reach(root))
        /\ \A j \in 1..Len(dependencies_list) :
            LET e == dependencies_list[j]
                requirers == {x \in {root} \cup Reach(root) : e.id \in DirectReqs(x)}
            IN
            /\ Range(e.required_by) = requirers
            /\ Len(e.required_by) = Cardinality(requirers)

\* The root requires a mod that requires a third one, which the root does not list.
C3_Witness ==
    /\ recursive
    /\ FirstCallReturned
    /\ \E a, b \in Mods \ {mods_ids[1]} :
        /\ a # b
        /\ DirectReqs(mods_ids[1]) = {a}
        /\ b \in DirectReqs(a)
        /\ \E j \in 1..Len(dependencies_list) :
            dependencies_list[j] = [id |-> b, required_by |-> <<a>>]

\* C4: Batch union.  The list generate_dependency_tree returns has the ids of
\* the lists obtained by resolving each root alone against an empty list, and
\* each entry's required_by has the ids of that entry's required_by in those lists.
C4_BatchUnion ==
    (pc = "done" /\ entry = "batch") =>
        LET alone == [j \in 1..Len(mods_ids) |->
                        CreateModDependenciesTree(mods_ids[j], <<>>, recursive)]
        IN
        /\ IdSet(dependencies_list) = UNION {IdSet(alone[j]) : j \in 1..Len(mods_ids)}
        /\ \A h \in 1..Len(dependencies_list) :
            Range(dependencies_list[h].required_by) =
                UNION {Range(alone[j][x].required_by) :
                         <<j, x>> \in {<<j, x>> \in (1..Len(mods_ids)) \X (1..NMods) :
                                          /\ x <= Len(alone[j])
                                          /\ alone[j][x].id = dependencies_list[h].id}}

\* Two different roots, each with a requirement the other lacks, and one shared.
C4_Witness ==
    /\ pc = "done"
    /\ entry = "batch"
    /\ Len(mods_ids) = 2
    /\ DirectReqs(mods_ids[1]) \ DirectReqs(mods_ids[2]) # {}
    /\ DirectReqs(mods_ids[2]) \ DirectReqs(mods_ids[1]) # {}
    /\ Len(dependencies_list) >= 2
    /\ \E h \in 1..Len(dependencies_list) : Len(dependencies_list[h].required_by) >= 2

\* C5: Silent drop.  A call's requirements are the links of its page whose
\* lookup succeeds, in document order: a failed lookup adds nothing, raises
\* nothing and does not stop the others.  A call on a page whose links all fail
\* leaves the accumulator as it received it, though has_dependencies is true.
C5_SilentDrop ==
    \A d \in 1..Len(stack) :
        LET f == stack[d]
            links == IF site[f.root].section THEN site[f.root].refs ELSE <<>>
        IN
        /\ f.reqs = SelectSeq(links, LAMBDA r : r # NoResult)
        /\ (links # <<>> /\ Range(links) = {NoResult}) =>
            /\ HasDependencies(f.root)
            /\ pc = "run"
            /\ f.i > Len(f.reqs)
            /\ dependencies_list = f.acc_in

\* A nonempty accumulator, a root whose links are a failed lookup and nothing
\* else, and another root whose failed lookup precedes one that succeeds.
C5_Witness ==
    /\ stack # <<>>
    /\ dependencies_list # <<>>
    /\ site[Top.root].section
    /\ site[Top.root].refs = <<NoResult>>
    /\ \E m \in Mods : site[m].section /\ site[m].refs[1] = NoResult
                       /\ Len(site[m].refs) = 2 /\ m = dependencies_list[1].required_by[1]

\* C6: A call on a root whose page has no "Required items:" section has no
\* requirement, changes nothing of the accumulator and returns it as received.
C6_NoSectionUnchanged ==
    [][(pc = "run" /\ stack # <<>> /\ ~site[Top.root].section) =>
            /\ Top.reqs = <<>>
            /\ dependencies_list = Top.acc_in
            /\ dependencies_list' = Top.acc_in
            /\ Len(stack') = Len(stack) - 1]_vars

C6_Witness ==
    /\ pc = "done"
    /\ Len(mods_ids) = 2
    /\ ~site[mods_ids[2]].section
    /\ site[mods_ids[2]].box
    /\ Len(dependencies_list) = 2

\* C7: Without the flag no call is made on a requirement's page and the
\* entries are direct requirements of the roots; get_mod_dependencies gives
\* None exactly when the page has no section, and otherwise the root's direct
\* requirements, each required by the root alone.
C7_OneLevel ==
    ~recursive =>
        /\ Len(stack) <= 1
        /\ IdSet(dependencies_list) \subseteq UNION {DirectReqs(r) : r \in Range(mods_ids)}
        /\ (entry = "get_deps" /\ pc = "done") =>
            IF site[mods_ids[1]].section
            THEN /\ retval = "list"
                 /\ IdSet(dependencies_list) = DirectReqs(mods_ids[1])
                 /\ \A j \in 1..Len(dependencies_list) :
                     dependencies_list[j].required_by = <<mods_ids[1]>>
            ELSE retval = "None" /\ dependencies_list = <<>>

\* The root's requirement has a requirement of its own, which stays out.
C7_Witness ==
    /\ entry = "get_deps"
    /\ pc = "done"
    /\ retval = "list"
    /\ Len(dependencies_list) = 1
    /\ DirectReqs(dependencies_list[1].id) \ ({mods_ids[1]} \cup IdSet(dependencies_list)) # {}

\* C18: In the recursive run of the first root (the accumulator starts empty,
\* the graph from the root is acyclic) a call is made on a requirement's page
\* only if the requirement was not in the accumulator yet, so that every page
\* is expanded at most once.
C18_ExpandOnce ==
    [][(/\ pc = "run"
        /\ recursive
        /\ k = 1
        /\ stack # <<>>
        /\ Len(stack') = Len(stack) + 1
        /\ Acyclic(mods_ids[1]))
       => stack'[Len(stack')].root \notin IdSet(dependencies_list)]_vars

\* C19: In every state of every run, the cyclic ones and the states inside a
\* recursion included, no two entries of the accumulator have the same id, no
\* required_by holds an id twice and no required_by is empty.
C19_WellFormed ==
    /\ \A a, b \in 1..Len(dependencies_list) :
        a # b => dependencies_list[a].id # dependencies_list[b].id
    /\ \A j \in 1..Len(dependencies_list) :
        LET rb == dependencies_list[j].required_by IN
        /\ rb # <<>>
        /\ \A a, b \in 1..Len(rb) : a # b => rb[a] # rb[b]

\* A run on a cyclic graph, stopped inside the recursion, with a shared entry.
C19_Witness ==
    /\ pc = "overflow"
    /\ Len(dependencies_list) >= 2
    /\ \E j \in 1..Len(dependencies_list) : Len(dependencies_list[j].required_by) >= 2

IsPrefix(a, b) == Len(a) <= Len(b) /\ \A j \in 1..Len(a) : a[j] = b[j]

\* list b is list a grown: a's entries at their places, each required_by
\* extended at its end only.
Extends(a, b) ==
    /\ Len(a) <= Len(b)
    /\ \A j \in 1..Len(a) :
        /\ b[j].id = a[j].id
        /\ IsPrefix(a[j].required_by, b[j].required_by)

\* C20: Every step only grows the accumulator: the entries stay at their
\* places, a required_by gains elements at its end only, and a new entry goes
\* after all the others; the accumulator is then every active call's received
\* list grown, and a call on a requirement finds the requirement's entry
\* already in the list it receives.
C20_OnlyGrows ==
    [][/\ Extends(dependencies_list, dependencies_list')
       /\ Len(dependencies_list') <= Len(dependencies_list) + 1
       /\ \A d \in 1..Len(stack') :
            /\ Extends(stack'[d].acc_in, dependencies_list')
            /\ d > 1 => stack'[d].root \in IdSet(stack'[d].acc_in)]_vars

\* Two roots resolved recursively: the second adds to an entry of the first
\* and appends an entry of its own.
C20_Witness ==
    /\ pc = "done"
    /\ recursive
    /\ Len(mods_ids) = 2
    /\ Len(dependencies_list) >= 2
    /\ dependencies_list[Len(dependencies_list)].required_by = <<mods_ids[2]>>
    /\ \E j \in 1..(Len(dependencies_list) - 1) :
        /\ Len(dependencies_list[j].required_by) = 2
        /\ dependencies_list[j].required_by[2] = mods_ids[2]

----------------------------------------------------------------------------
\* Operations of the download-url resolver.

TreeOff ==
    /\ site = [m \in Mods |-> [box |-> FALSE, section |-> FALSE, refs |-> <<>>]]
    /\ entry = "batch"
    /\ mods_ids = <<>>
    /\ recursive = FALSE
    /\ k = 1
    /\ dependencies_list = <<>>
    /\ stack = <<>>
    /\ pc = "off"
    /\ retval = "unset"

InitUrl ==
    /\ TreeOff
    /\ DlOff
    /\ ModOff
    /\ revision_url \in Urls
    /\ mod_url = revision_url
    /\ dl_pc = "start"
    /\ requests_log = <<>>
    /\ get_response = NoGetResponse
    /\ post_response = NoPostResponse
    /\ download_url = NoFile
    /\ dl_error = "none"

\* The hostname check and the choice of the unlock sequence.
CheckHost ==
    /\ dl_pc = "start"
    /\ IF ~IsSupported(Hostname(mod_url))
       THEN /\ dl_pc' = "raised"
            /\ dl_error' = "UnsupportedHostError"
       ELSE /\ dl_pc' = IF Hostname(mod_url) = "uploadfiles.eu" THEN "get" ELSE "post"
            /\ dl_error' = dl_error
    /\ UNCHANGED <<revision_url, mod_url, requests_log, get_response, post_response,
                   download_url>>
    /\ UNCHANGED <<treeVars, dlVars, modVars>>

\* scraper.get(mod_url, allow_redirects=False) and the handling of its response.
GetHop ==
    /\ dl_pc = "get"
    /\ \E r \in GetResponses :
        /\ requests_log' = Append(requests_log, GetRequest(mod_url))
        /\ get_response' = r
        /\ IF RaisesForStatus(r.status)
           THEN /\ dl_pc' = "raised"
                /\ dl_error' = "HTTPError"
                /\ mod_url' = mod_url
           ELSE IF r.location = NoLocation
           THEN /\ dl_pc' = "raised"
                /\ dl_error' = "KeyError"
                /\ mod_url' = mod_url
           ELSE /\ dl_pc' = "post"
                /\ dl_error' = dl_error
                /\ mod_url' = r.location
    /\ UNCHANGED <<revision_url, post_response, download_url>>
    /\ UNCHANGED <<treeVars, dlVars, modVars>>

\* scraper.post(mod_url, data, allow_redirects=False), the handling of its
\* response and the return.
PostHop ==
    /\ dl_pc = "post"
    /\ \E r \in PostResponses :
        /\ requests_log' = Append(requests_log, PostRequest(mod_url))
        /\ post_response' = r
        /\ IF RaisesForStatus(r.status)
           THEN /\ dl_pc' = "raised"
                /\ dl_error' = "HTTPError"
                /\ download_url' = download_url
           ELSE IF r.location = NoHeader
           THEN /\ dl_pc' = "raised"
                /\ dl_error' = "KeyError"
                /\ download_url' = download_url
           ELSE /\ dl_pc' = "returned"
                /\ dl_error' = dl_error
                /\ download_url' = ResolvedUrl(r)
    /\ UNCHANGED <<revision_url, mod_url, get_response>>
    /\ UNCHANGED <<treeVars, dlVars, modVars>>

NextUrl ==
    \/ CheckHost
    \/ GetHop
    \/ PostHop

SpecUrl == InitUrl /\ [][NextUrl]_vars

----------------------------------------------------------------------------
\* Properties of the download-url resolver, checked under SpecUrl.

Gets == {j \in 1..Len(requests_log) : requests_log[j].method = "GET"}

Posts == {j \in 1..Len(requests_log) : requests_log[j].method = "POST"}

\* C8: For a revision whose hostname is outside the allow-list (modsbase.com,
\* uploadfiles.eu) the call ends in UnsupportedHostError and no request, GET or
\* POST, is ever sent.
C8_UnsupportedHost ==
    /\ revision_url.host \notin {"modsbase.com", "uploadfiles.eu"} =>
        /\ requests_log = <<>>
        /\ dl_pc \in {"start", "raised"}
        /\ dl_pc = "raised" => dl_error = "UnsupportedHostError"
        /\ download_url = NoFile
    /\ dl_error = "UnsupportedHostError" =>
        /\ revision_url.host \notin {"modsbase.com", "uploadfiles.eu"}
        /\ requests_log = <<>>

C8_Witness ==
    /\ revision_url.host = "www.modsbase.com"
    /\ dl_pc = "raised"
    /\ dl_error = "UnsupportedHostError"
    /\ requests_log = <<>>

\* C9: Unlock ordering.  For uploadfiles.eu the requests are one GET of the
\* revision's url without following redirects, then one POST to the Location
\* of the GET's response; for modsbase.com one POST to the revision's url and
\* no GET.  The url returned is the Location header of the POST's response.
C9_UnlockOrdering ==
    /\ Cardinality(Gets) <= 1
    /\ Cardinality(Posts) <= 1
    /\ \A j \in 1..Len(requests_log) : ~requests_log[j].allow_redirects
    /\ revision_url.host = "modsbase.com" => Gets = {}
    /\ (revision_url.host = "uploadfiles.eu" /\ Posts # {}) =>
        requests_log = <<GetRequest(revision_url), PostRequest(get_response.location)>>
    /\ dl_pc = "returned" =>
        /\ revision_url.host = "uploadfiles.eu" =>
            /\ requests_log = <<GetRequest(revision_url), PostRequest(get_response.location)>>
            /\ get_response.location # NoLocation
        /\ revision_url.host = "modsbase.com" =>
            requests_log = <<PostRequest(revision_url)>>
        /\ download_url = post_response.location
        /\ download_url \in FileUrls

\* The hop leads elsewhere, and the POST's body names another file than its header.
C9_Witness ==
    /\ dl_pc = "returned"
    /\ revision_url.host = "uploadfiles.eu"
    /\ get_response.location.host = "modsbase.com"
    /\ get_response.location.id # revision_url.id
    /\ post_response.body # post_response.location
    /\ Len(requests_log) = 2

\* C10: A 4xx or 5xx status at the GET or at the POST ends the call in
\* HTTPError; the request is not sent again, no url is returned, and after a
\* failed GET no POST is sent.
C10_TransportError ==
    /\ get_response.status >= 400 =>
        /\ dl_pc = "raised"
        /\ dl_error = "HTTPError"
        /\ requests_log = <<GetRequest(revision_url)>>
        /\ post_response = NoPostResponse
        /\ download_url = NoFile
    /\ post_response.status >= 400 =>
        /\ dl_pc = "raised"
        /\ dl_error = "HTTPError"
        /\ Cardinality(Posts) = 1
        /\ Posts = {Len(requests_log)}
        /\ download_url = NoFile

\* A server error at the GET hop; the response names a Location all the same.
C10_Witness ==
    /\ get_response.status = 503
    /\ get_response.location # NoLocation
    /\ dl_pc = "raised"
    /\ dl_error = "HTTPError"
    /\ Len(requests_log) = 1

\* A failed POST after a GET hop that went through.
C10_WitnessPost ==
    /\ post_response.status = 404
    /\ Len(requests_log) = 2
    /\ dl_pc = "raised"

----------------------------------------------------------------------------
\* Operations of the downloader.

InitDl ==
    /\ TreeOff
    /\ UrlOff
    /\ ModOff
    /\ files \in [FileNames -> {NoFileThere} \cup [exists : {TRUE}, size : {0, 3}]]
    /\ dr_pc = "idle"
    /\ dr_call = NoCall
    /\ dr_prev = Outcome(NoCall)

\* A call that finds its target: one progress call, the path, no request.
CallExisting ==
    /\ dr_pc = "idle"
    /\ \E url \in DlUrls, pcb \in BOOLEAN, ecb \in BOOLEAN :
        LET c == NewCall(url, pcb, ecb)
            name == LocalFilename(url)
        IN
        /\ PathExists(name)
        /\ dr_call' = [c EXCEPT !.progress = ExistingProgress(pcb, files[name].size),
                                !.result = "path",
                                !.path = DownloadTarget(url, DownloadPath)]
    /\ dr_prev' = Outcome(dr_call)
    /\ UNCHANGED <<files, dr_pc>>
    /\ UNCHANGED <<treeVars, urlVars, modVars>>

\* A call whose GET is answered by an HTTP error: the error call, None.
CallHttpError ==
    /\ dr_pc = "idle"
    /\ \E url \in DlUrls, pcb \in BOOLEAN, ecb \in BOOLEAN, status \in DlStatuses :
        LET c == NewCall(url, pcb, ecb) IN
        /\ ~PathExists(LocalFilename(url))
        /\ RaisesForStatus(status)
        /\ dr_call' = [c EXCEPT !.requests = 1, !.status = status,
                                !.errors = ErrorCalls(ecb, status),
                                !.result = "None"]
    /\ dr_prev' = Outcome(dr_call)
    /\ UNCHANGED <<files, dr_pc>>
    /\ UNCHANGED <<treeVars, urlVars, modVars>>

\* A call whose GET is answered without an HTTP error: the target is opened
\* for writing and the streaming starts.
CallOpen ==
    /\ dr_pc = "idle"
    /\ \E url \in DlUrls, pcb \in BOOLEAN, ecb \in BOOLEAN,
          status \in DlStatuses, length \in LengthHeaders :
        LET c == NewCall(url, pcb, ecb)
            name == LocalFilename(url)
            opened == [exists |-> TRUE, size |-> 0]
        IN
        /\ ~PathExists(name)
        /\ ~RaisesForStatus(status)
        /\ files' = [files EXCEPT ![name] = opened]
        /\ dr_call' = [c EXCEPT !.requests = 1, !.status = status, !.length = length,
                                !.file_after = opened]
    /\ dr_prev' = Outcome(dr_call)
    /\ dr_pc' = "streaming"
    /\ UNCHANGED <<treeVars, urlVars, modVars>>

\* One iteration of "for chunk in r.iter_content(...)".
StreamChunk ==
    /\ dr_pc = "streaming"
    /\ Len(dr_call.chunks) < MaxChunks
    /\ \E n \in ChunkLens :
        LET name == LocalFilename(dr_call.url)
            dl == dr_call.dl + n
            written == [files[name] EXCEPT !.size = @ + n]
        IN
        /\ files' = [files EXCEPT ![name] = written]
        /\ dr_call' = [dr_call EXCEPT
                            !.chunks = Append(@, n),
                            !.dl = dl,
                            !.progress = @ \o ChunkProgress(dr_call.pcb, dr_call.length, dl),
                            !.file_after = written]
    /\ UNCHANGED <<dr_pc, dr_prev>>
    /\ UNCHANGED <<treeVars, urlVars, modVars>>

\* The iterator is exhausted: the path is returned.
StreamEnd ==
    /\ dr_pc = "streaming"
    /\ dr_call' = [dr_call EXCEPT !.result = "path",
                                  !.path = DownloadTarget(dr_call.url, DownloadPath)]
    /\ dr_pc' = "idle"
    /\ UNCHANGED <<files, dr_prev>>
    /\ UNCHANGED <<treeVars, urlVars, modVars>>

\* The iterator raises (the connection breaks): the exception leaves the call.
StreamFail ==
    /\ dr_pc = "streaming"
    /\ dr_call' = [dr_call EXCEPT !.result = "raised"]
    /\ dr_pc' = "idle"
    /\ UNCHANGED <<files, dr_prev>>
    /\ UNCHANGED <<treeVars, urlVars, modVars>>

NextDl ==
    \/ CallExisting
    \/ CallHttpError
    \/ CallOpen
    \/ StreamChunk
    \/ StreamEnd
    \/ StreamFail

SpecDl == InitDl /\ [][NextDl]_vars

----------------------------------------------------------------------------
\* Properties of the downloader.

\* C11: two calls in a row with the same url and directory return the same
\* path both times, and the second one sends no request.
C11_Idempotent ==
    (/\ dr_prev.url = dr_call.url
     /\ dr_prev.result \in {"path", "None", "raised"}
     /\ dr_call.result \in {"path", "None", "raised"})
    => /\ dr_prev.result = "path"
       /\ dr_call.result = "path"
       /\ dr_call.path = dr_prev.path
       /\ dr_call.requests = 0

\* C11 (amended): when a call has returned a path, the next call with the same
\* url and directory returns that same path and sends no request.
C11_IdempotentAfterPath ==
    (dr_prev.url = dr_call.url /\ dr_prev.result = "path")
    => /\ dr_call.result = "path"
       /\ dr_call.path = dr_prev.path
       /\ dr_call.requests = 0

C11_Witness ==
    /\ dr_prev.url = dr_call.url
    /\ dr_prev.result = "path"
    /\ dr_prev.requests = 1
    /\ dr_call.result = "path"
    /\ dr_call.requests = 0

\* C12: a call that finds its target file sends no request, calls the progress
\* callback (when one is given) exactly once with (size, size), never calls the
\* error callback, leaves the file as it was and returns the path of the file.
C12_ExistingFile ==
    dr_call.existed
    => LET size == dr_call.size_before
           name == LocalFilename(dr_call.url)
       IN
       /\ dr_call.requests = 0
       /\ dr_call.progress =
            (IF dr_call.pcb THEN <<[dl |-> size, total |-> size]>> ELSE <<>>)
       /\ dr_call.errors = <<>>
       /\ dr_call.result = "path"
       /\ dr_call.path = [dir |-> DownloadPath, name |-> name]
       /\ files[name] = [exists |-> TRUE, size |-> size]

C12_Witness ==
    /\ dr_call.existed
    /\ dr_call.pcb
    /\ dr_call.size_before = 3
    /\ Len(dr_call.progress) = 1
    /\ dr_call.result = "path"

\* C13: a call whose request is answered by an HTTP error calls the error
\* callback (when one is given) once with the status code and the message,
\* returns None, never calls the progress callback and creates no file.
C13_HttpError ==
    (dr_call.requests = 1 /\ dr_call.status >= 400)
    => /\ dr_call.errors =
            (IF dr_call.ecb
             THEN <<[code |-> dr_call.status, message |-> "HTTPError"]>>
             ELSE <<>>)
       /\ dr_call.result = "None"
       /\ dr_call.progress = <<>>
       /\ ~dr_call.file_after.exists
       /\ ~files[LocalFilename(dr_call.url)].exists

C13_Witness ==
    /\ dr_call.result = "None"
    /\ dr_call.status = 503
    /\ dr_call.ecb
    /\ dr_call.pcb
    /\ Len(dr_call.errors) = 1

RECURSIVE SumTo(_, _)
SumTo(seq, j) == IF j = 0 THEN 0 ELSE SumTo(seq, j - 1) + seq[j]

\* C14: while a response is streamed, the progress callback given is called
\* once after every chunk written, with the bytes written so far and, when the
\* response has a size header, the total that header states.
C14_ProgressPerChunk ==
    (dr_call.pcb /\ dr_call.requests = 1 /\ dr_call.status \in 1..399)
    => /\ Len(dr_call.progress) = Len(dr_call.chunks)
       /\ \A j \in 1..Len(dr_call.progress) :
            /\ dr_call.progress[j].dl = SumTo(dr_call.chunks, j)
            /\ dr_call.length.present
                 => dr_call.progress[j].total = dr_call.length.value

\* C21: a call that ends in an error, at the first response or while the
\* chunks are streamed, leaves no file at its target, and the next call for
\* the same url sends the request again instead of returning the path of a
\* file found there.
C21_NoPartialFile ==
    /\ dr_call.result \in {"None", "raised"}
         => ~files[LocalFilename(dr_call.url)].exists
    /\ (/\ dr_prev.result \in {"None", "raised"}
        /\ dr_prev.requests = 1
        /\ dr_prev.url = dr_call.url)
         => dr_call.requests = 1 /\ ~dr_call.existed

----------------------------------------------------------------------------
\* Operations on a mod page and on the FullMod object.

NowYears == {2024, 2025}

\* The inputs: a page with sections missing, or a complete page with any
\* revisions, or any text and templates for parse_time.
InitMod ==
    /\ TreeOff
    /\ UrlOff
    /\ DlOff
    /\ now_year \in NowYears
    /\ \/ /\ page \in PagesOfSections \cup PagesOfRevisions
          /\ pt_text = PlainPage.last_revision
          /\ pt_templates = RevisionTemplates
       \/ /\ page = PlainPage
          /\ pt_text \in Texts
          /\ pt_templates \in SeqsUpTo(Templates, MaxTemplates)
    /\ ext = NoExt
    /\ full_mod = NoMod

ParseTimeCall ==
    /\ now_year # 0
    /\ LET r == ParseTime(pt_text, pt_templates) IN
       ext' = [NoExt EXCEPT !.op = "parse_time", !.pt = r,
                            !.raised = IF r.ok THEN "no" ELSE "ValueError"]
    /\ UNCHANGED <<page, now_year, pt_text, pt_templates, full_mod>>
    /\ UNCHANGED <<treeVars, urlVars, dlVars>>

GetModDatesCall ==
    /\ now_year # 0
    /\ ext' = GetModDates(page)
    /\ UNCHANGED <<page, now_year, pt_text, pt_templates, full_mod>>
    /\ UNCHANGED <<treeVars, urlVars, dlVars>>

GetModRatingCall ==
    /\ now_year # 0
    /\ ext' = GetModRating(page)
    /\ UNCHANGED <<page, now_year, pt_text, pt_templates, full_mod>>
    /\ UNCHANGED <<treeVars, urlVars, dlVars>>

GetModDlcsCall ==
    /\ now_year # 0
    /\ ext' = GetModDlcs(page)
    /\ UNCHANGED <<page, now_year, pt_text, pt_templates, full_mod>>
    /\ UNCHANGED <<treeVars, urlVars, dlVars>>

GetModTagsCall ==
    /\ now_year # 0
    /\ ext' = GetModTags(page)
    /\ UNCHANGED <<page, now_year, pt_text, pt_templates, full_mod>>
    /\ UNCHANGED <<treeVars, urlVars, dlVars>>

GetModRevisionsCall ==
    /\ now_year # 0
    /\ ext' = GetModRevisions(page, now_year)
    /\ UNCHANGED <<page, now_year, pt_text, pt_templates, full_mod>>
    /\ UNCHANGED <<treeVars, urlVars, dlVars>>

CreateModBaseFromBsPageCall ==
    /\ now_year # 0
    /\ ext' = CreateModBaseFromBsPage(page, now_year)
    /\ UNCHANGED <<page, now_year, pt_text, pt_templates, full_mod>>
    /\ UNCHANGED <<treeVars, urlVars, dlVars>>

CreateFullModCall ==
    /\ now_year # 0
    /\ LET r == CreateFullMod(page, now_year) IN
       /\ ext' = Raise("create_full_mod", r.raised)
       /\ full_mod' = IF r.raised = "no" THEN r.obj ELSE full_mod
    /\ UNCHANGED <<page, now_year, pt_text, pt_templates>>
    /\ UNCHANGED <<treeVars, urlVars, dlVars>>

\* The values a caller gives for other_revisions: None, or revisions in any order.
RevisionLists == {None(<<>>)} \cup {Some(l) : l \in SeqsUpTo(KnownRevisions, MaxRevs)}

\* FullMod(..., other_revisions=value): __init__ assigns through the setter.
FullModInit ==
    /\ now_year # 0
    /\ \E value \in RevisionLists :
        full_mod' = [NoMod EXCEPT !.exists = TRUE,
                                  !.other_revisions = OtherRevisionsSetter(value)]
    /\ UNCHANGED <<page, now_year, pt_text, pt_templates, ext>>
    /\ UNCHANGED <<treeVars, urlVars, dlVars>>

\* mod.other_revisions = value
SetOtherRevisions ==
    /\ full_mod.exists
    /\ \E value \in RevisionLists :
        full_mod' = [full_mod EXCEPT !.other_revisions = OtherRevisionsSetter(value)]
    /\ UNCHANGED <<page, now_year, pt_text, pt_templates, ext>>
    /\ UNCHANGED <<treeVars, urlVars, dlVars>>

NextMod ==
    \/ ParseTimeCall
    \/ GetModDatesCall
    \/ GetModRatingCall
    \/ GetModDlcsCall
    \/ GetModTagsCall
    \/ GetModRevisionsCall
    \/ CreateModBaseFromBsPageCall
    \/ CreateFullModCall

SpecMod == InitMod /\ [][NextMod]_vars

\* The FullMod object and what gives it its other_revisions: complete pages
\* with any revisions, the constructor and the setter.
InitFullMod ==
    /\ TreeOff
    /\ UrlOff
    /\ DlOff
    /\ now_year \in NowYears
    /\ page \in PagesOfRevisions
    /\ pt_text = PlainPage.last_revision
    /\ pt_templates = RevisionTemplates
    /\ ext = NoExt
    /\ full_mod = NoMod

NextFullMod ==
    \/ GetModRevisionsCall
    \/ CreateFullModCall
    \/ FullModInit
    \/ SetOtherRevisions

SpecFullMod == InitFullMod /\ [][NextFullMod]_vars

----------------------------------------------------------------------------
\* Properties of the page extractors and of the FullMod object.

IsSortedByDate(list) ==
    \A j \in 1..(Len(list) - 1) : DateLe(list[j].date, list[j + 1].date)

\* C15: the other_revisions of a FullMod, when present, are in non-decreasing
\* order of date, whether they come from get_mod_revisions (through
\* create_full_mod), from the constructor or from the setter.
C15_SortInvariant ==
    /\ (ext.op = "get_mod_revisions" /\ ~ext.old.none) => IsSortedByDate(ext.old.val)
    /\ (full_mod.exists /\ ~full_mod.other_revisions.none)
         => IsSortedByDate(full_mod.other_revisions.val)

\* The templates of the list that accept the text, by position.
MatchingPositions(text, templates) ==
    {j \in 1..Len(templates) : text.shape = templates[j].shape}

\* The year a revision's date must carry: the text's own when it has one, the
\* current year otherwise.
YearOf(r) == IF r.name.shape = ShapeRevYear THEN r.name.y ELSE now_year

\* C16: parse_time returns the result of the first template of the list that
\* matches the text, raises ValueError exactly when none matches, and
\* get_mod_revisions puts the current year on a date only when the template
\* that matched has no year.
C16_DatePrecedence ==
    /\ ext.op = "parse_time"
         => LET m == MatchingPositions(pt_text, pt_templates) IN
            IF m = {}
            THEN ext.raised = "ValueError" /\ ~ext.pt.ok
            ELSE LET first == CHOOSE j \in m : \A i \in m : j <= i IN
                 /\ ext.raised = "no"
                 /\ ext.pt.ok
                 /\ ext.pt.template = pt_templates[first]
                 /\ ext.pt.value = Strptime(pt_text, pt_templates[first])
    /\ ext.op = "get_mod_revisions"
         => LET links == IF page.revisions.box THEN page.revisions.links ELSE <<>>
                texts == {page.last_revision} \cup {links[j] : j \in 1..Len(links)}
            IN
            /\ ext.raised = "ValueError" <=> \E t \in texts : t.shape = ShapeJunk
            /\ ext.raised = "no"
                 => /\ ext.latest.name = page.last_revision
                    /\ ext.latest.date.year = YearOf(ext.latest)
                    /\ ext.old.none <=> links = <<>>
                    /\ Len(ext.old.val) = Len(links)
                    /\ \A j \in 1..Len(ext.old.val) :
                         ext.old.val[j].date.year = YearOf(ext.old.val[j])

C16_Witness ==
    /\ ext.op = "parse_time"
    /\ Len(pt_templates) = 2
    /\ MatchingPositions(pt_text, pt_templates) = {2}
    /\ ext.pt.ok
    /\ ext.pt.template = pt_templates[2]
    /\ ~ext.pt.template.has_year

C16_WitnessBackFill ==
    /\ ext.op = "get_mod_revisions"
    /\ ext.raised = "no"
    /\ ~ext.old.none
    /\ \E j \in 1..Len(ext.old.val) :
         /\ ext.old.val[j].name.shape = ShapeRev
         /\ ext.old.val[j].date.year = now_year
    /\ \E j \in 1..Len(ext.old.val) :
         /\ ext.old.val[j].name.shape = ShapeRevYear
         /\ ext.old.val[j].date.year # now_year

\* C17: an extractor of an optional section (dates, DLC list, rating, tags)
\* run on a page without that section gives None or an empty list and raises
\* nothing; the extraction of a page without its title, id or category raises.
C17_OptionalSections ==
    /\ (ext.op = "get_mod_dates" /\ (~page.byline \/ page.times = {}))
         => ext.raised = "no" /\ ext.published.none /\ ext.updated.none
    /\ (ext.op = "get_mod_dlcs" /\ ~(page.box /\ page.dlc))
         => ext.raised = "no" /\ ext.dlcs.none
    /\ (ext.op = "get_mod_rating" /\ ~page.rating)
         => ext.raised = "no" /\ ext.rating.none
    /\ (ext.op = "get_mod_tags" /\ ~page.tags_box)
         => ext.raised = "no" /\ (ext.tags.none \/ ext.tags.val = <<>>)
    /\ (ext.op = "create_mod_base_from_bs_page"
          /\ (~page.title \/ ~page.article \/ ~page.category))
         => ext.raised # "no"

====
